---- MODULE Spec2Model ----
(***************************************************************************)
(* Derived-metrics pipeline of the mental-health survey dashboard:         *)
(*   data_overview.show            year-over-year aggregate rates          *)
(*   diagnostic_analytics          prepare_correlation_data (memoized)     *)
(*   professional_insights.show    ROI calculator, risk matrix, simulator  *)
(* A dataset is a sequence of rows (records of labelled answers).  Real    *)
(* numbers are exact rationals [nan, n, d]; nan marks pandas' NaN.         *)
(***************************************************************************)
EXTENDS Integers, Sequences, FiniteSets

VARIABLES
    df,                 \* the survey table handed to every page: Seq of rows
    productivity_loss,  \* column professional_insights writes into df
    params,             \* ROI calculator widgets (tab 1)
    sim,                \* intervention simulator widgets (tab 3)
    overview,           \* what data_overview.show computed
    roi,                \* what the ROI calculator computed
    risk,               \* what the risk matrix computed
    combiner,           \* what the intervention simulator computed
    cache,              \* st.cache_data store of prepare_correlation_data
    df_corr             \* what prepare_correlation_data returned last

vars == <<df, productivity_loss, params, sim, overview, roi, risk, combiner,
          cache, df_corr>>

-----------------------------------------------------------------------------
(* Bounds of the model *)

MaxRows == 3         \* rows of a table shown by data_overview
MaxRoiRows == 2      \* rows of a table fed to the ROI calculator
MaxRiskRows == 1     \* rows of a table fed to the risk matrix
MaxHighRiskRows == 1 \* rows of a table whose high-risk fraction is inspected
MaxCorrRows == 2     \* rows of a table whose ordinal encoding is inspected
MaxPermRows == 2     \* rows of a table whose row order is permuted
MaxAppRows == 1      \* rows of a table in the whole-application runs
MaxCache == 2        \* entries the memoization store may hold

-----------------------------------------------------------------------------
(* Exact rational arithmetic with NaN *)

RECURSIVE Gcd(_, _)
Gcd(a, b) == IF b = 0 THEN a ELSE Gcd(b, a % b)

Abs(x) == IF x < 0 THEN -x ELSE x

NaN == [nan |-> TRUE, n |-> 0, d |-> 1]

\* n/d in lowest terms, d > 0
Rat(n, d) ==
    LET s == IF d < 0 THEN -1 ELSE 1
        g == Gcd(Abs(n), Abs(d))
    IN  [nan |-> FALSE, n |-> (s * n) \div g, d |-> (s * d) \div g]

Num(k) == [nan |-> FALSE, n |-> k, d |-> 1]

RAdd(x, y) ==
    IF x.nan \/ y.nan THEN NaN
    ELSE LET g == Gcd(x.d, y.d)
         IN  Rat(x.n * (y.d \div g) + y.n * (x.d \div g), x.d * (y.d \div g))

RNeg(x) == IF x.nan THEN NaN ELSE [nan |-> FALSE, n |-> -x.n, d |-> x.d]

RSub(x, y) == RAdd(x, RNeg(y))

RMul(x, y) ==
    IF x.nan \/ y.nan THEN NaN
    ELSE LET g1 == Gcd(Abs(x.n), y.d)
             g2 == Gcd(Abs(y.n), x.d)
         IN  Rat((x.n \div g1) * (y.n \div g2), (x.d \div g2) * (y.d \div g1))

\* x / y for y # 0
RDiv(x, y) ==
    IF x.nan \/ y.nan THEN NaN
    ELSE RMul(x, Rat(y.d, y.n))

\* IEEE comparison: every comparison with NaN is false
RLeq(x, y) ==
    /\ ~x.nan /\ ~y.nan
    /\ x.n * (y.d \div Gcd(x.d, y.d)) <= y.n * (x.d \div Gcd(x.d, y.d))

RLt(x, y) ==
    /\ ~x.nan /\ ~y.nan
    /\ x.n * (y.d \div Gcd(x.d, y.d)) < y.n * (x.d \div Gcd(x.d, y.d))

RECURSIVE SumSeq(_)
SumSeq(s) == IF s = <<>> THEN Num(0) ELSE RAdd(Head(s), SumSeq(Tail(s)))

-----------------------------------------------------------------------------
(* The survey table *)

\* a missing value (pandas NaN / None) in a column of labels
NA == "<missing>"

Years == {2014, 2016}

DefaultRow ==
    [year |-> 2014, treatment |-> 0,
     gender |-> "Male", self_employed |-> "No", family_history |-> "No",
     benefits |-> "Yes", care_options |-> "No", wellness_program |-> "No",
     seek_help |-> "No", anonymity |-> "Don't know", leave |-> "Don't know",
     mental_health_consequence |-> "No", coworkers |-> "No",
     supervisor |-> "No", no_employees |-> "6-25", tech_company |-> "Yes",
     work_interfere |-> "Never"]

\* every table of 1..k rows drawn from the row set R
Tables(R, k) == UNION {[1..m -> R] : m \in 1..k}

Indices(t) == 1..Len(t)

\* df before professional_insights has added its column
NoColumn == [present |-> FALSE, vals |-> <<>>]

\* df[col] at one row
Cell(row, col) == row[col]

-----------------------------------------------------------------------------
(* data_overview.show *)

support_cols == <<"benefits", "care_options", "wellness_program", "seek_help", "anonymity">>

SupportSet == {support_cols[i] : i \in 1..Len(support_cols)}

RowsOfYear(t, y) == {i \in Indices(t) : t[i].year = y}

YearsPresent(t) == {t[i].year : i \in Indices(t)}

\* groupby('year')['treatment'].value_counts(normalize=True): share of the
\* year's rows holding treatment value v
ValueShare(t, y, v) ==
    Rat(Cardinality({i \in RowsOfYear(t, y) : t[i].treatment = v}),
        Cardinality(RowsOfYear(t, y)))

\* .unstack(): one column per treatment value present in the table, sorted
UnstackColumns(t) ==
    LET present == {t[i].treatment : i \in Indices(t)}
    IN  (IF 0 \in present THEN <<0>> ELSE <<>>) \o
        (IF 1 \in present THEN <<1>> ELSE <<>>)

InSeq(x, s) == \E i \in 1..Len(s) : s[i] = x

\* "Ensure columns exist": a missing column is appended after the others
EnsureColumns(cols) ==
    LET c0 == IF InSeq(0, cols) THEN cols ELSE Append(cols, 0)
    IN  IF InSeq(1, c0) THEN c0 ELSE Append(c0, 1)

\* columns = ['No Treatment', 'Sought Treatment'] renames by position: the
\* treatment value whose column ends up being called 'Sought Treatment'
SoughtTreatmentColumn(t) == EnsureColumns(UnstackColumns(t))[2]

\* treatment_by_year.loc[y, 'Sought Treatment'] for a year in the index; an
\* appended column holds 0
SoughtTreatment(t, y) ==
    LET v == SoughtTreatmentColumn(t)
    IN  IF InSeq(v, UnstackColumns(t)) THEN ValueShare(t, y, v) ELSE Num(0)

\* df[df[col].isin(['Yes', 'No'])]
Filtered(t, col) == {i \in Indices(t) : Cell(t[i], col) \in {"Yes", "No"}}

\* groupby('year')[col].apply(lambda x: (x == 'Yes').mean()) for a year that
\* has filtered rows
YesMean(t, col, y) ==
    LET rows == {i \in Filtered(t, col) : t[i].year = y}
    IN  Rat(Cardinality({i \in rows : Cell(t[i], col) = "Yes"}), Cardinality(rows))

\* support_trends[col]: assigning the per-year series aligns it on the index
\* [2014, 2016]; a year the series lacks is NaN.  Without any filtered row
\* the whole column is the scalar 0.
SupportTrend(t, col, y) ==
    IF Filtered(t, col) # {}
    THEN IF \E i \in Filtered(t, col) : t[i].year = y
         THEN YesMean(t, col, y)
         ELSE NaN
    ELSE Num(0)

NoOverview ==
    [status |-> "none",
     sought |-> [y \in Years |-> NaN],
     support |-> [c \in SupportSet |-> [y \in Years |-> NaN]]]

\* the two .loc lookups of lines 54-60 raise KeyError for a year that has no
\* row; the support trends are computed only after them
OverviewResult(t) ==
    IF Years \subseteq YearsPresent(t)
    THEN [status |-> "ok",
          sought |-> [y \in Years |-> SoughtTreatment(t, y)],
          support |-> [c \in SupportSet |-> [y \in Years |-> SupportTrend(t, c, y)]]]
    ELSE [NoOverview EXCEPT !.status = "KeyError"]

-----------------------------------------------------------------------------
(* professional_insights.show, tab 1: ROI calculator *)

\* st.number_input / st.slider declarations: the widget returns a value
\* between min and max, initially value
avg_salary_widget == [min |-> 50000, max |-> 200000, value |-> 85000]
program_cost_widget == [min |-> 100, max |-> 5000, value |-> 1200]
company_size_widget == [min |-> 10, max |-> 50000, value |-> 250]
compliance_rate_widget == [min |-> 10, max |-> 100, value |-> 65]

DefaultParams ==
    [avg_salary |-> avg_salary_widget.value,
     program_cost |-> program_cost_widget.value,
     company_size |-> company_size_widget.value,
     compliance_rate |-> compliance_rate_widget.value]

\* loss_rates, in % of annual salary; .map leaves any other value NaN
loss_rates(label) ==
    CASE label = "Never" -> Num(0)
      [] label = "Rarely" -> Num(3)
      [] label = "Sometimes" -> Num(12)
      [] label = "Often" -> Num(25)
      [] OTHER -> NaN

\* df['work_interfere'].map(loss_rates) * avg_salary / 100
ProductivityLoss(t, avg_salary) ==
    [i \in Indices(t) |->
        RDiv(RMul(loss_rates(t[i].work_interfere), Num(avg_salary)), Num(100))]

DropNaN(s) == SelectSeq(s, LAMBDA x : ~x.nan)

\* Series.mean(): NaN entries are skipped; NaN when nothing is left
Mean(s) ==
    IF DropNaN(s) = <<>> THEN NaN
    ELSE RDiv(SumSeq(DropNaN(s)), Num(Len(DropNaN(s))))

effectiveness == Rat(42, 100)

\* baseline_loss = df['productivity_loss'].mean() * company_size
BaselineLoss(t, p) == RMul(Mean(ProductivityLoss(t, p.avg_salary)), Num(p.company_size))

\* adjusted_loss = baseline_loss * (1 - (effectiveness * compliance_rate/100))
AdjustedLoss(baseline_loss, p) ==
    RMul(baseline_loss,
         RSub(Num(1), RDiv(RMul(effectiveness, Num(p.compliance_rate)), Num(100))))

\* savings = baseline_loss - adjusted_loss
Savings(baseline_loss, adjusted_loss) == RSub(baseline_loss, adjusted_loss)

\* roi = (savings - program_cost*company_size) / (program_cost*company_size);
\* savings is a numpy float, so a zero divisor would give inf or nan and no
\* exception
Roi(savings, p) ==
    IF p.program_cost * p.company_size = 0 THEN NaN
    ELSE RDiv(RSub(savings, Num(p.program_cost * p.company_size)),
              Num(p.program_cost * p.company_size))

NoRoi ==
    [status |-> "none", baseline_loss |-> NaN, adjusted_loss |-> NaN,
     savings |-> NaN, roi |-> NaN]

RoiResult(t, p) ==
    LET b == BaselineLoss(t, p)
        a == AdjustedLoss(b, p)
        v == Savings(b, a)
    IN  [status |-> "ok", baseline_loss |-> b, adjusted_loss |-> a,
         savings |-> v, roi |-> Roi(v, p)]

-----------------------------------------------------------------------------
(* professional_insights.show, tab 2: risk indicator matrix *)

risk_factors ==
    <<"family_history", "work_interfere", "anonymity", "mental_health_consequence", "leave">>

weight(factor) ==
    CASE factor = "family_history" -> Rat(30, 100)
      [] factor = "work_interfere" -> Rat(25, 100)
      [] factor = "anonymity" -> Rat(20, 100)
      [] factor = "mental_health_consequence" -> Rat(15, 100)
      [] factor = "leave" -> Rat(10, 100)

\* the shared scale; .map leaves any other value NaN
risk_map(label) ==
    CASE label \in {"Yes", "Often", "Very difficult"} -> Num(1)
      [] label = "No" -> Num(0)
      [] label = "Sometimes" -> Rat(1, 2)
      [] label = "Rarely" -> Rat(1, 4)
      [] label = "Somewhat difficult" -> Rat(6, 10)
      [] OTHER -> NaN

\* Series.fillna(v)
FillNa(x, v) == IF x.nan THEN v ELSE x

\* the risk value without the fillna(0): an unmapped answer stays NaN
RiskValueNoFill(row, factor) == risk_map(Cell(row, factor))

\* df_risk[factor].map(risk_map).fillna(0)
RiskValue(row, factor) == FillNa(risk_map(Cell(row, factor)), Num(0))

\* sum(df_risk[factor] * weight for factor, weight in risk_factors.items())
CompositeScore(row) ==
    SumSeq([k \in 1..Len(risk_factors) |->
               RMul(RiskValue(row, risk_factors[k]), weight(risk_factors[k]))])

\* Factor values (in hundredths, in risk_factors order) whose exact score is
\* 0.7 but whose binary floating-point sum is 0.7000000000000001
FloatAboveThreshold ==
    {<<100, 0, 100, 100, 50>>, <<100, 100, 0, 100, 0>>, <<100, 100, 50, 0, 50>>,
     <<100, 100, 25, 0, 100>>, <<100, 100, 25, 50, 25>>, <<100, 50, 50, 100, 25>>,
     <<50, 100, 100, 0, 100>>, <<50, 100, 100, 50, 25>>, <<50, 100, 50, 100, 50>>,
     <<50, 60, 100, 100, 50>>, <<25, 100, 100, 100, 25>>, <<60, 100, 60, 100, 0>>}

Hundredths(x) == (x.n * 100) \div x.d

\* the threshold taken as "at least 0.7" instead of "above 0.7"
HighRiskAtLeast(row) == RLeq(Rat(7, 10), CompositeScore(row))

\* df_risk['composite_score'] > 0.7, as the float comparison decides it
HighRisk(row) ==
    \/ RLt(Rat(7, 10), CompositeScore(row))
    \/ [k \in 1..Len(risk_factors) |-> Hundredths(RiskValue(row, risk_factors[k]))]
          \in FloatAboveThreshold

\* len(df_risk[(score > 0.7) & (treatment == 0)]) / len(df_risk)
UntreatedHighRisk(t) ==
    Rat(Cardinality({i \in Indices(t) : HighRisk(t[i]) /\ t[i].treatment = 0}), Len(t))

NoRisk == [status |-> "none", composite_score |-> <<>>, untreated_high_risk |-> NaN]

RiskResult(t) ==
    [status |-> "ok",
     composite_score |-> [i \in Indices(t) |-> CompositeScore(t[i])],
     untreated_high_risk |-> UntreatedHighRisk(t)]

-----------------------------------------------------------------------------
(* professional_insights.show, tab 3: intervention simulator *)

InterventionNames ==
    {"Manager Training", "Therapy Coverage", "Flexible Hours", "Mental Health Days"}

\* cost and [min, max] effect of each intervention
interventions(name) ==
    CASE name = "Manager Training" ->
            [cost |-> 500, effect |-> <<Rat(8, 100), Rat(15, 100)>>]
      [] name = "Therapy Coverage" ->
            [cost |-> 1200, effect |-> <<Rat(12, 100), Rat(25, 100)>>]
      [] name = "Flexible Hours" ->
            [cost |-> 200, effect |-> <<Rat(5, 100), Rat(12, 100)>>]
      [] name = "Mental Health Days" ->
            [cost |-> 50, effect |-> <<Rat(3, 100), Rat(8, 100)>>]

employees_widget == [min |-> 10, max |-> 10000, value |-> 500]
annual_salary_widget == [min |-> 50000, max |-> 200000, value |-> 85000]

DefaultSim ==
    [selected |-> <<"Manager Training">>,
     employees |-> employees_widget.value,
     annual_salary |-> annual_salary_widget.value]

\* total_cost = sum(interventions[i]["cost"] for i in selected)
TotalCost(selected) ==
    SumSeq([k \in 1..Len(selected) |-> Num(interventions(selected[k]).cost)])

RECURSIVE ProdSeq(_)
ProdSeq(s) == IF s = <<>> THEN Num(1) ELSE RMul(Head(s), ProdSeq(Tail(s)))

\* effects that compound instead of adding up: 1 - prod(1 - effect)
CompoundedEffect(selected, k) ==
    RSub(Num(1),
         ProdSeq([j \in 1..Len(selected) |->
                     RSub(Num(1), interventions(selected[j]).effect[k])]))

\* min_effect (k = 1) and max_effect (k = 2):
\* sum(interventions[i]["effect"][k] for i in selected)
CombinedEffect(selected, k) ==
    SumSeq([j \in 1..Len(selected) |-> interventions(selected[j]).effect[k]])

\* avg_effect = (min_effect + max_effect) / 2
AvgEffect(s) ==
    RDiv(RAdd(CombinedEffect(s.selected, 1), CombinedEffect(s.selected, 2)), Num(2))

\* avg_effect * 0.15 * annual_salary * employees
ProductivityGain(s) ==
    RMul(RMul(RMul(AvgEffect(s), Rat(15, 100)), Num(s.annual_salary)), Num(s.employees))

\* avg_effect * 0.1 * 2 * annual_salary
RetentionGain(s) ==
    RMul(RMul(RMul(AvgEffect(s), Rat(1, 10)), Num(2)), Num(s.annual_salary))

\* (productivity_gain + retention_gain) - (total_cost * employees)
NetBenefit(s) ==
    RSub(RAdd(ProductivityGain(s), RetentionGain(s)),
         RMul(TotalCost(s.selected), Num(s.employees)))

NoCombiner ==
    [status |-> "none", total_cost |-> NaN, min_effect |-> NaN,
     max_effect |-> NaN, net_benefit |-> NaN]

CombinerResult(s) ==
    [status |-> "ok", total_cost |-> TotalCost(s.selected),
     min_effect |-> CombinedEffect(s.selected, 1),
     max_effect |-> CombinedEffect(s.selected, 2),
     net_benefit |-> NetBenefit(s)]

-----------------------------------------------------------------------------
(* diagnostic_analytics.prepare_correlation_data *)

features_for_corr ==
    <<"gender", "self_employed", "family_history", "benefits", "care_options",
      "wellness_program", "seek_help", "anonymity", "leave",
      "mental_health_consequence", "coworkers", "supervisor", "no_employees",
      "tech_company", "treatment", "work_interfere">>

\* the labels of the survey in the order Python sorts strings
SortedLabels ==
    <<"1-5", "100-500", "26-100", "500-1000", "6-25", "Don't know", "Female",
      "Male", "Maybe", "More than 1000", "N/A", "Never", "No", "Not sure",
      "Often", "Other", "Rarely", "Some of them", "Sometimes",
      "Somewhat difficult", "Somewhat easy", "Very difficult", "Very easy", "Yes">>

\* .astype(str): a missing value becomes the string 'nan'
AsStr(v) == IF v = NA THEN "nan" ELSE v

interference_map(label) ==
    CASE label = "Never" -> Num(0)
      [] label = "Rarely" -> Num(1)
      [] label = "Sometimes" -> Num(2)
      [] label = "Often" -> Num(3)
      [] OTHER -> NaN

leave_map(label) ==
    CASE label = "Very easy" -> Num(0)
      [] label = "Somewhat easy" -> Num(1)
      [] label = "Don't know" -> Num(2)
      [] label = "Somewhat difficult" -> Num(3)
      [] label = "Very difficult" -> Num(4)
      [] OTHER -> NaN

\* df_corr['work_interfere'].astype(str).map(interference_map).fillna(0)
EncodeWorkInterfere(v) == FillNa(interference_map(AsStr(v)), Num(0)).n

\* leave filled like work_interfere, with 0 instead of "Don't know"'s value
EncodeLeaveZeroFill(v) == FillNa(leave_map(AsStr(v)), Num(0)).n

\* df_corr['leave'].astype(str).map(leave_map).fillna(leave_map["Don't know"])
EncodeLeave(v) == FillNa(leave_map(AsStr(v)), leave_map("Don't know")).n

categorical_cols_to_encode ==
    SelectSeq(features_for_corr,
              LAMBDA c : c \notin {"work_interfere", "leave", "treatment"})

\* the columns get_dummies leaves in place, ahead of the dummies
PlainColumns ==
    SelectSeq(features_for_corr,
              LAMBDA c : c \in {"work_interfere", "leave", "treatment"})

RECURSIVE FirstSeen(_, _, _)
FirstSeen(t, col, i) ==
    IF i = 0 THEN <<>>
    ELSE LET prev == FirstSeen(t, col, i - 1)
         IN  IF t[i][col] = NA \/ InSeq(t[i][col], prev)
             THEN prev
             ELSE Append(prev, t[i][col])

\* categories in order of first appearance in the rows, not sorted
LevelsByAppearance(t, col) == FirstSeen(t, col, Len(t))

\* the categories of a column: its distinct non-missing labels, sorted
Levels(t, col) == SelectSeq(SortedLabels, LAMBDA l : \E i \in Indices(t) : t[i][col] = l)

\* drop_first=True: one indicator per category but the first
DummyColumns(t, col) ==
    LET lv == Levels(t, col)
    IN  IF lv = <<>> THEN <<>>
        ELSE [k \in 1..(Len(lv) - 1) |-> <<col, lv[k + 1]>>]

RECURSIVE Flatten(_)
Flatten(ss) == IF ss = <<>> THEN <<>> ELSE Head(ss) \o Flatten(Tail(ss))

EncodedColumns(t) ==
    [k \in 1..Len(PlainColumns) |-> <<PlainColumns[k], "">>] \o
    Flatten([k \in 1..Len(categorical_cols_to_encode) |->
                DummyColumns(t, categorical_cols_to_encode[k])])

EncodedCell(row, column) ==
    CASE column = <<"work_interfere", "">> -> EncodeWorkInterfere(row.work_interfere)
      [] column = <<"leave", "">> -> EncodeLeave(row.leave)
      [] column = <<"treatment", "">> -> row.treatment
      [] OTHER -> IF row[column[1]] = column[2] THEN 1 ELSE 0

\* the DataFrame handed to prepare_correlation_data: the survey columns and,
\* once professional_insights has run, its productivity_loss column
Frame(t, pl) == [rows |-> t, productivity_loss |-> pl]

\* df[features_for_corr].copy()
SelectFeatures(frame) == frame.rows

EncodedRows(t, columns) ==
    [i \in Indices(t) |-> [k \in 1..Len(columns) |-> EncodedCell(t[i], columns[k])]]

\* the body of prepare_correlation_data
Encode(frame) ==
    LET t == SelectFeatures(frame)
        columns == EncodedColumns(t)
    IN  [columns |-> columns, rows |-> EncodedRows(t, columns)]

\* a key that sees the shape of the argument but not the values in it
CacheKeyByShape(frame) ==
    [rows |-> [i \in 1..Len(frame.rows) |-> DefaultRow],
     productivity_loss |-> frame.productivity_loss]

\* @st.cache_data: the store is keyed by the content of the argument
CacheKey(frame) == frame

CacheHit(frame) == \E e \in cache : e.key = CacheKey(frame)

Cached(frame) == (CHOOSE e \in cache : e.key = CacheKey(frame)).value

NoCorr == [status |-> "none", table |-> [columns |-> <<>>, rows |-> <<>>]]

-----------------------------------------------------------------------------
(* The pages: each action is one run of a page's show(df) *)

OverviewShow ==
    /\ overview' = OverviewResult(df)
    /\ roi' = NoRoi /\ risk' = NoRisk /\ combiner' = NoCombiner /\ df_corr' = NoCorr
    /\ UNCHANGED <<df, productivity_loss, params, sim, cache>>

DiagnosticShow ==
    LET frame == Frame(df, productivity_loss)
    IN  /\ \/ CacheHit(frame)
           \/ Cardinality(cache) < MaxCache
        /\ IF CacheHit(frame)
           THEN /\ df_corr' = [status |-> "ok", table |-> Cached(frame)]
                /\ cache' = cache
           ELSE /\ df_corr' = [status |-> "ok", table |-> Encode(frame)]
                /\ cache' = cache \cup {[key |-> CacheKey(frame), value |-> Encode(frame)]}
        /\ overview' = NoOverview /\ roi' = NoRoi /\ risk' = NoRisk
        /\ combiner' = NoCombiner
        /\ UNCHANGED <<df, productivity_loss, params, sim>>

\* professional_insights.show with the widgets at p (tab 1) and s (tab 3);
\* line 43 writes the productivity_loss column into df itself
InsightsRun(p, s) ==
    /\ params' = p /\ sim' = s
    /\ productivity_loss' = [present |-> TRUE, vals |-> ProductivityLoss(df, p.avg_salary)]
    /\ roi' = RoiResult(df, p) /\ risk' = RiskResult(df) /\ combiner' = CombinerResult(s)
    /\ overview' = NoOverview /\ df_corr' = NoCorr
    /\ UNCHANGED <<df, cache>>

\* a new session on another dataset; the memoization store outlives it
LoadDataset(t) ==
    /\ df' = t /\ productivity_loss' = NoColumn
    /\ params' = DefaultParams /\ sim' = DefaultSim
    /\ overview' = NoOverview /\ roi' = NoRoi /\ risk' = NoRisk
    /\ combiner' = NoCombiner /\ df_corr' = NoCorr
    /\ UNCHANGED cache

InitWith(tables) ==
    /\ df \in tables /\ productivity_loss = NoColumn
    /\ params = DefaultParams /\ sim = DefaultSim
    /\ overview = NoOverview /\ roi = NoRoi /\ risk = NoRisk /\ combiner = NoCombiner
    /\ cache = {} /\ df_corr = NoCorr

-----------------------------------------------------------------------------
(* SpecOverview: the overview page on every small table *)

OverviewRows ==
    {[DefaultRow EXCEPT !.year = y, !.treatment = tr, !.benefits = b,
                        !.care_options = c, !.wellness_program = "No",
                        !.seek_help = "Don't know", !.anonymity = NA] :
        y \in Years, tr \in {0, 1}, b \in {"Yes", "No", "Don't know"},
        c \in {"Yes", "Not sure"}}

InitOverview == InitWith(Tables(OverviewRows, MaxRows))

NextOverview == OverviewShow

SpecOverview == InitOverview /\ [][NextOverview]_vars

CountRows(t, y, col, v) == Cardinality({i \in RowsOfYear(t, y) : t[i][col] = v})

\* C1: for each of 2014 and 2016, the treatment-seeking rate the overview
\* reports is the number of that year's respondents who sought treatment
\* divided by the number of that year's respondents.
C1_SoughtTreatmentRate ==
    overview.status = "ok" =>
        \A y \in Years :
            overview.sought[y] =
                Rat(CountRows(df, y, "treatment", 1), Cardinality(RowsOfYear(df, y)))

\* C2: a year with no qualifying rows has its rate reported as 0: the
\* overview completes and shows 0 for the treatment rate of a year without
\* respondents and for the support rate of a year without Yes/No answers.
C2_EmptyYearRateIsZero ==
    overview.status # "none" =>
        \A y \in Years :
            /\ RowsOfYear(df, y) = {} =>
                  overview.status = "ok" /\ overview.sought[y] = Num(0)
            /\ \A c \in SupportSet :
                  (\A i \in Filtered(df, c) : df[i].year # y) =>
                      overview.status = "ok" /\ overview.support[c][y] = Num(0)

\* C3: for each support field and year, the reported rate is Yes / (Yes + No)
\* over that year's rows and lies between 0 and 1.
C3_SupportRateInUnitInterval ==
    overview.status = "ok" =>
        \A c \in SupportSet, y \in Years :
            LET yes == CountRows(df, y, c, "Yes")
                no == CountRows(df, y, c, "No")
            IN  /\ yes + no > 0 => overview.support[c][y] = Rat(yes, yes + no)
                /\ RLeq(Num(0), overview.support[c][y])
                /\ RLeq(overview.support[c][y], Num(1))

-----------------------------------------------------------------------------
(* SpecRisk: the risk matrix on every small table of risk-factor answers *)

RiskRows ==
    {[DefaultRow EXCEPT !.family_history = fh, !.work_interfere = wi,
                        !.anonymity = am[1],
                        !.mental_health_consequence = am[2], !.leave = lv] :
        fh \in {"Yes", "No", NA},
        wi \in {"Often", "Sometimes", "Rarely", "N/A"},
        am \in {<<"Yes", "Yes">>, <<"Don't know", "Yes">>, <<"Don't know", "Maybe">>},
        lv \in {"Very difficult", "Somewhat difficult", "Somewhat easy"}}

InitRisk == InitWith(Tables(RiskRows, MaxRiskRows))

NextRisk == InsightsRun(DefaultParams, DefaultSim)

SpecRisk == InitRisk /\ [][NextRisk]_vars

\* the claimed scale: the image of a label, 0 for a label not on it
ClaimedRisk(label) ==
    CASE label \in {"Yes", "Often", "Very difficult"} -> Num(1)
      [] label = "Sometimes" -> Rat(1, 2)
      [] label = "Rarely" -> Rat(1, 4)
      [] label = "Somewhat difficult" -> Rat(3, 5)
      [] OTHER -> Num(0)

ClaimedScore(row) ==
    RAdd(RMul(Rat(30, 100), ClaimedRisk(row.family_history)),
    RAdd(RMul(Rat(25, 100), ClaimedRisk(row.work_interfere)),
    RAdd(RMul(Rat(20, 100), ClaimedRisk(row.anonymity)),
    RAdd(RMul(Rat(15, 100), ClaimedRisk(row.mental_health_consequence)),
         RMul(Rat(10, 100), ClaimedRisk(row.leave))))))

HighestRisk(row) ==
    /\ row.family_history = "Yes" /\ row.work_interfere = "Often"
    /\ row.anonymity = "Yes" /\ row.mental_health_consequence = "Yes"
    /\ row.leave = "Very difficult"

AllUnmapped(row) ==
    \A k \in 1..Len(risk_factors) :
        row[risk_factors[k]] \in {NA, "N/A", "Don't know", "Maybe", "Somewhat easy"}

\* C4: every row's composite score is the weighted sum over the shared risk
\* scale with 0 for a value off the scale or missing; it lies in [0, 1], is
\* exactly 1 for a row of highest-risk labels and exactly 0 for a row of
\* unmapped or missing values, and the computation yields a number for
\* every row.
C4_CompositeScore ==
    risk.status = "ok" =>
        /\ Len(risk.composite_score) = Len(df)
        /\ \A i \in Indices(df) :
              /\ risk.composite_score[i] = ClaimedScore(df[i])
              /\ RLeq(Num(0), risk.composite_score[i])
              /\ RLeq(risk.composite_score[i], Num(1))
              /\ HighestRisk(df[i]) => risk.composite_score[i] = Num(1)
              /\ AllUnmapped(df[i]) => risk.composite_score[i] = Num(0)

C4_Witness ==
    /\ risk.status = "ok"
    /\ HighestRisk(df[1])
    /\ risk.composite_score[1] = Num(1)

C4_WitnessUnmapped ==
    /\ risk.status = "ok"
    /\ AllUnmapped(df[1])
    /\ risk.composite_score[1] = Num(0)

-----------------------------------------------------------------------------
(* SpecHighRisk: the high-risk-but-untreated fraction around the threshold *)

HighRiskRows ==
    {[DefaultRow EXCEPT !.treatment = tr, !.family_history = fh,
                        !.work_interfere = wi, !.anonymity = an,
                        !.mental_health_consequence = mhc, !.leave = lv] :
        tr \in {0, 1}, fh \in {"Yes", "No", NA, "Don't know"},
        wi \in {"Often", "Sometimes"}, an \in {"Yes", "Don't know"},
        mhc \in {"Yes", "Maybe"}, lv \in {"Very difficult", "Somewhat easy"}}

InitHighRisk == InitWith(Tables(HighRiskRows, MaxHighRiskRows))

NextHighRisk == InsightsRun(DefaultParams, DefaultSim)

SpecHighRisk == InitHighRisk /\ [][NextHighRisk]_vars

\* family_history has a non-zero image on the risk scale
FamilyHistoryCounts(row) == ClaimedRisk(row.family_history) # Num(0)

OtherFactors == SelectSeq(risk_factors, LAMBDA f : f # "family_history")

\* C13: a respondent is high-risk (score > 0.7) only if family_history has a
\* non-zero image on the risk scale: the other four weights sum to exactly
\* 0.70, so a row whose family_history is 'No', missing or unmapped scores at
\* most 0.7 and is never counted in the high-risk-but-untreated fraction.
C13_HighRiskNeedsFamilyHistory ==
    risk.status = "ok" =>
        /\ SumSeq([k \in 1..Len(OtherFactors) |-> weight(OtherFactors[k])]) = Rat(70, 100)
        /\ \A i \in Indices(df) :
              ~FamilyHistoryCounts(df[i]) =>
                  /\ RLeq(risk.composite_score[i], Rat(7, 10))
                  /\ ~HighRisk(df[i])
        /\ risk.untreated_high_risk =
              Rat(Cardinality({i \in Indices(df) :
                                  /\ FamilyHistoryCounts(df[i])
                                  /\ HighRisk(df[i])
                                  /\ df[i].treatment = 0}), Len(df))
        /\ RLeq(risk.untreated_high_risk,
                Rat(Cardinality({i \in Indices(df) :
                                    FamilyHistoryCounts(df[i]) /\ df[i].treatment = 0}),
                    Len(df)))

\* an untreated respondent without family history whose other four factors
\* all hold their highest-risk label: the score is exactly 0.7 and the row is
\* not counted
C13_Witness ==
    /\ risk.status = "ok"
    /\ df[1].family_history = "No" /\ df[1].treatment = 0
    /\ df[1].work_interfere = "Often" /\ df[1].anonymity = "Yes"
    /\ df[1].mental_health_consequence = "Yes" /\ df[1].leave = "Very difficult"
    /\ risk.composite_score[1] = Rat(7, 10)
    /\ risk.untreated_high_risk = Num(0)

-----------------------------------------------------------------------------
(* SpecSim: the intervention simulator under every selection *)

\* st.multiselect returns the chosen names in the order chosen, none twice
Selections ==
    {sel \in UNION {[1..m -> InterventionNames] : m \in 0..Cardinality(InterventionNames)} :
        \A i, j \in 1..Len(sel) : i # j => sel[i] # sel[j]}

SimChoices ==
    [selected : Selections,
     employees : {employees_widget.min, employees_widget.value},
     annual_salary : {annual_salary_widget.value}]

InitSim == InitWith({<<DefaultRow>>})

NextSim == \E s \in SimChoices : InsightsRun(DefaultParams, s)

SpecSim == InitSim /\ [][NextSim]_vars

Chosen(name) == \E k \in 1..Len(sim.selected) : sim.selected[k] = name

Pick(name, v) == IF Chosen(name) THEN v ELSE 0

\* C5: for every selection the combiner's cost, min effect and max effect
\* are the sums over the chosen interventions; nothing chosen gives cost 0,
\* effects [0, 0] and net benefit 0; all four give 1950 and [0.28, 0.60].
C5_AdditiveCombiner ==
    combiner.status = "ok" =>
        /\ combiner.total_cost =
              Num(Pick("Manager Training", 500) + Pick("Therapy Coverage", 1200)
                  + Pick("Flexible Hours", 200) + Pick("Mental Health Days", 50))
        /\ combiner.min_effect =
              Rat(Pick("Manager Training", 8) + Pick("Therapy Coverage", 12)
                  + Pick("Flexible Hours", 5) + Pick("Mental Health Days", 3), 100)
        /\ combiner.max_effect =
              Rat(Pick("Manager Training", 15) + Pick("Therapy Coverage", 25)
                  + Pick("Flexible Hours", 12) + Pick("Mental Health Days", 8), 100)
        /\ sim.selected = <<>> =>
              /\ combiner.total_cost = Num(0)
              /\ combiner.min_effect = Num(0) /\ combiner.max_effect = Num(0)
              /\ combiner.net_benefit = Num(0)
        /\ Len(sim.selected) = Cardinality(InterventionNames) =>
              /\ combiner.total_cost = Num(1950)
              /\ combiner.min_effect = Rat(28, 100)
              /\ combiner.max_effect = Rat(60, 100)

C5_Witness ==
    /\ combiner.status = "ok"
    /\ Len(sim.selected) = Cardinality(InterventionNames)
    /\ combiner.total_cost = Num(1950)

-----------------------------------------------------------------------------
(* SpecRoi: the ROI calculator, one widget moved per run *)

RoiRows ==
    {[DefaultRow EXCEPT !.work_interfere = wi] :
        wi \in {"Never", "Sometimes", "Often", NA}}

SalaryChoices == {avg_salary_widget.min, avg_salary_widget.value}
ProgramCostChoices == {program_cost_widget.min, program_cost_widget.value}
CompanySizeChoices == {company_size_widget.min, company_size_widget.value}
ComplianceRateChoices ==
    {compliance_rate_widget.min, compliance_rate_widget.value, compliance_rate_widget.max}

InitRoi == InitWith(Tables(RoiRows, MaxRoiRows))

NextRoi ==
    \/ \E v \in SalaryChoices :
          InsightsRun([params EXCEPT !.avg_salary = v], DefaultSim)
    \/ \E v \in ProgramCostChoices :
          InsightsRun([params EXCEPT !.program_cost = v], DefaultSim)
    \/ \E v \in CompanySizeChoices :
          InsightsRun([params EXCEPT !.company_size = v], DefaultSim)
    \/ \E v \in ComplianceRateChoices :
          InsightsRun([params EXCEPT !.compliance_rate = v], DefaultSim)

SpecRoi == InitRoi /\ [][NextRoi]_vars

\* what the calculator shows for the table and the widgets as they are, with
\* the participation slider at rate
RoiAt(rate) ==
    RoiResult(df, [params EXCEPT !.compliance_rate = rate]).roi

\* C6: with table, salary, headcount and program cost fixed, the ROI is
\* non-decreasing in the participation rate: p1 <= p2 gives
\* ROI(p1) <= ROI(p2).
C6_RoiMonotone ==
    roi.status = "ok" =>
        \A rate \in ComplianceRateChoices :
            /\ rate <= params.compliance_rate => RLeq(RoiAt(rate), roi.roi)
            /\ params.compliance_rate <= rate => RLeq(roi.roi, RoiAt(rate))

\* the claimed baseline: an unmapped or missing answer counts as loss 0 and
\* stays in the mean
ClaimedBaseline(t, p) ==
    RMul(RDiv(SumSeq([i \in Indices(t) |->
                        RDiv(RMul(FillNa(loss_rates(t[i].work_interfere), Num(0)),
                                  Num(p.avg_salary)), Num(100))]),
              Num(Len(t))),
         Num(p.company_size))

Unmapped(v) == v \notin {"Never", "Rarely", "Sometimes", "Often"}

\* C12: in the ROI baseline a row whose work_interfere is missing or unmapped
\* counts as productivity loss 0 in the mean and is not left out of it;
\* baseline loss, adjusted loss, savings and ROI are numbers for every
\* dataset, and baseline loss and savings are 0 when every row is unmapped.
C12_BaselineFallbackZero ==
    roi.status = "ok" =>
        /\ roi.baseline_loss = ClaimedBaseline(df, params)
        /\ ~roi.baseline_loss.nan /\ ~roi.adjusted_loss.nan
        /\ ~roi.savings.nan /\ ~roi.roi.nan
        /\ (\A i \in Indices(df) : Unmapped(df[i].work_interfere)) =>
              roi.baseline_loss = Num(0) /\ roi.savings = Num(0)

-----------------------------------------------------------------------------
(* SpecCorr: the ordinal encoding of prepare_correlation_data *)

WorkInterfereValues == {"Never", "Rarely", "Sometimes", "Often", "N/A", NA}

LeaveValues ==
    {"Very easy", "Somewhat easy", "Don't know", "Somewhat difficult",
     "Very difficult", "Not sure", NA}

CorrRows ==
    {[DefaultRow EXCEPT !.treatment = tr, !.work_interfere = wi] :
        tr \in {0, 1}, wi \in WorkInterfereValues}
    \cup
    {[DefaultRow EXCEPT !.treatment = tr, !.leave = lv] :
        tr \in {0, 1}, lv \in LeaveValues}

InitCorr == InitWith(Tables(CorrRows, MaxCorrRows))

NextCorr == DiagnosticShow

SpecCorr == InitCorr /\ [][NextCorr]_vars

\* the cell of row i of an encoded table in the column named column
At(table, i, column) ==
    table.rows[i][CHOOSE k \in 1..Len(table.columns) : table.columns[k] = column]

ColumnsOf(table, name) ==
    {k \in 1..Len(table.columns) : table.columns[k][1] = name}

ClaimedInterference(v) ==
    CASE v = "Never" -> 0 [] v = "Rarely" -> 1 [] v = "Sometimes" -> 2
      [] v = "Often" -> 3 [] OTHER -> 0

ClaimedLeave(v) ==
    CASE v = "Very easy" -> 0 [] v = "Somewhat easy" -> 1 [] v = "Don't know" -> 2
      [] v = "Somewhat difficult" -> 3 [] v = "Very difficult" -> 4 [] OTHER -> 2

\* C8: the two ordinal maps are total: work_interfere encodes to 0..3 with 0
\* for any other or missing value, leave to 0..4 with 2 for any other or
\* missing value; neither column is one-hot expanded and treatment stays one
\* 0/1 column.
C8_OrdinalMapsTotal ==
    df_corr.status = "ok" =>
        /\ Len(df_corr.table.rows) = Len(df)
        /\ \A name \in {"work_interfere", "leave", "treatment"} :
              /\ Cardinality(ColumnsOf(df_corr.table, name)) = 1
              /\ \E k \in 1..Len(df_corr.table.columns) :
                    df_corr.table.columns[k] = <<name, "">>
        /\ \A i \in Indices(df) :
              /\ At(df_corr.table, i, <<"work_interfere", "">>)
                    = ClaimedInterference(df[i].work_interfere)
              /\ At(df_corr.table, i, <<"leave", "">>) = ClaimedLeave(df[i].leave)
              /\ At(df_corr.table, i, <<"treatment", "">>) = df[i].treatment
              /\ At(df_corr.table, i, <<"treatment", "">>) \in {0, 1}

C8_Witness ==
    /\ df_corr.status = "ok"
    /\ Len(df) = 2
    /\ df[1].work_interfere = NA /\ df[2].leave = "Not sure"
    /\ At(df_corr.table, 1, <<"work_interfere", "">>) = 0
    /\ At(df_corr.table, 2, <<"leave", "">>) = 2

-----------------------------------------------------------------------------
(* SpecPerm: the one-hot encoding and the order of the rows *)

PermRows ==
    {[DefaultRow EXCEPT !.gender = g, !.benefits = b, !.work_interfere = wi] :
        g \in {"Male", "Female", "Other"}, b \in {"Yes", "No", "Don't know"},
        wi \in {"Often", "N/A"}}

InitPerm == InitWith(Tables(PermRows, MaxPermRows))

NextPerm == DiagnosticShow

SpecPerm == InitPerm /\ [][NextPerm]_vars

RowPermutations(n) ==
    {f \in [1..n -> 1..n] : \A i, j \in 1..n : f[i] = f[j] => i = j}

Permuted(t, f) == [i \in Indices(t) |-> t[f[i]]]

Rank(label) == CHOOSE k \in 1..Len(SortedLabels) : SortedLabels[k] = label

LabelsIn(t, col) == {t[i][col] : i \in Indices(t)} \ {NA}

HasColumn(table, column) ==
    \E k \in 1..Len(table.columns) : table.columns[k] = column

\* C9: the encoding does not depend on the order of the rows: a row
\* permutation of the table encodes to the same columns in the same order,
\* each row to the same values, and the category dropped for a nominal field
\* is the first present label in string order.
C9_RowOrderIndependent ==
    df_corr.status = "ok" =>
        /\ \A f \in RowPermutations(Len(df)) :
              LET other == Encode(Frame(Permuted(df, f), NoColumn))
              IN  /\ other.columns = df_corr.table.columns
                  /\ \A i \in Indices(df) : other.rows[i] = df_corr.table.rows[f[i]]
        /\ \A k \in 1..Len(categorical_cols_to_encode) :
              LET col == categorical_cols_to_encode[k]
              IN  \A l \in LabelsIn(df, col) :
                     ~HasColumn(df_corr.table, <<col, l>>)
                        <=> \A m \in LabelsIn(df, col) : Rank(l) <= Rank(m)

C9_Witness ==
    /\ df_corr.status = "ok"
    /\ Len(df) = 2
    /\ df[1].gender = "Male" /\ df[2].gender = "Female"
    /\ HasColumn(df_corr.table, <<"gender", "Male">>)
    /\ ~HasColumn(df_corr.table, <<"gender", "Female">>)

-----------------------------------------------------------------------------
(* Spec: the application: pages rendered in any order, widgets moved,       *)
(* tables replaced                                                          *)

AppRows ==
    {[DefaultRow EXCEPT !.year = 2014, !.work_interfere = "Often"],
     [DefaultRow EXCEPT !.year = 2016, !.work_interfere = NA,
                        !.gender = "Female", !.treatment = 1]}

AppTables == Tables(AppRows, MaxAppRows)

Init == InitWith(AppTables)

InsightsShow ==
    \E v \in SalaryChoices : InsightsRun([params EXCEPT !.avg_salary = v], sim)

Next ==
    \/ OverviewShow
    \/ DiagnosticShow
    \/ InsightsShow
    \/ \E t \in AppTables : LoadDataset(t)

Spec == Init /\ [][Next]_vars

\* C10: what the memoized prepare_correlation_data returns always equals a
\* fresh encoding of the table as it is now: no entry is served for a table
\* whose content differs from the entry's, and the widgets of the scenario
\* pages do not change the encoding returned.
C10_MemoizedEqualsFresh ==
    /\ df_corr.status = "ok" =>
          /\ df_corr.table = Encode(Frame(df, productivity_loss))
          /\ df_corr.table = Encode(Frame(df, NoColumn))
    /\ \A e \in cache : e.value = Encode(e.key)

C10_Witness ==
    /\ df_corr.status = "ok"
    /\ productivity_loss.present
    /\ Cardinality(cache) = 2
    /\ \A e \in cache : e.key.rows = df

\* C11: the dataset handed to the pages is immutable: whatever pages were
\* rendered and with whatever parameters, it has the columns and the cell
\* values it was loaded with: no page adds a column to it or changes a row.
C11_DatasetImmutable ==
    /\ productivity_loss = NoColumn
    /\ df \in AppTables

====
